---- MODULE Spec2Model ----
(***************************************************************************)
(* Model of network-stater (src/src/main.go): the sampling loop of main,   *)
(* the counter reader readTotals and the history pruning pruneOld.         *)
(*                                                                         *)
(* Time is the monotonic clock in whole seconds.  float64 values (rates,   *)
(* cumulative totals) are modelled as exact rationals [num, den] in lowest *)
(* terms; float64 rounding is not modelled.  Counters are naturals far     *)
(* below 2^64.                                                             *)
(***************************************************************************)
EXTENDS Integers, Sequences, FiniteSets, TLC

(* ---------------------------- bounds ---------------------------------- *)
\* largest byte counter one interface line reports
MaxCount == 1
\* most lines in a counter table after the two header lines
MaxLines == 2
\* ScaleSpec: the short sampling interval is at most MaxEvery seconds
MaxEvery == 70
\* ScaleSpec: the bytes per short interval are at most MaxUnit
MaxUnit == 2
\* the clock never passes MaxClock sampling intervals
MaxClock == 7
\* most successful (reported) ticks in one run
MaxTicks == 2
\* body lines of a table of ReadSpec
MaxHostLines == 2
\* LoopSpec: the clock never passes MaxLoopClock sampling intervals
MaxLoopClock == 2

(* ------------------------ program constants --------------------------- *)
\* const avgWindow = 5 * time.Minute, in seconds
avgWindow == 300
\* interval := time.Minute, in seconds
interval == 60
\* if len(fields) < 16
MinFields == 16
\* lineNum < 2: header lines of the table
HeaderLines == 2

(* ------------------------ float64 arithmetic -------------------------- *)
Abs(n) == IF n < 0 THEN -n ELSE n

RECURSIVE GCD(_, _)
GCD(a, b) == IF b = 0 THEN a ELSE GCD(b, a % b)

\* n / d for d > 0, in lowest terms
Quot(n, d) == LET g == GCD(Abs(n), d) IN [num |-> n \div g, den |-> d \div g]

Plus(p, q) == Quot(p.num * q.den + q.num * p.den, p.den * q.den)

Times(p, k) == Quot(p.num * k, p.den)

(* --------------------------- readTotals ------------------------------- *)
\* a field that strconv.ParseUint rejects
BadField == -1

\* the interfaces of the host: the loopback, one uplink, one other device
Ifaces == {"lo", "en0", "eth0"}

\* a selection that takes every name
HasPrefixAnything(iface) == TRUE

\* strings.HasPrefix(iface, "en")
HasPrefixEn(iface) == iface \in {"en0", "en1"}

\* the lines a table can hold: blank lines, lines that do not split in two
\* at ':', and interface lines "iface: f0 ... fN"
GoodLines == [shape : {"iface"}, iface : Ifaces, nfields : {MinFields},
              rx : 0..MaxCount, tx : 0..MaxCount]

OddLines ==
    { [shape |-> "blank", iface |-> "", nfields |-> 0, rx |-> 0, tx |-> 0],
      [shape |-> "nosplit", iface |-> "", nfields |-> 0, rx |-> 0, tx |-> 0],
      [shape |-> "iface", iface |-> "en0", nfields |-> MinFields - 1, rx |-> 1, tx |-> 1],
      [shape |-> "iface", iface |-> "eth0", nfields |-> MinFields - 1, rx |-> 1, tx |-> 1],
      [shape |-> "iface", iface |-> "en0", nfields |-> MinFields, rx |-> BadField, tx |-> 1],
      [shape |-> "iface", iface |-> "en0", nfields |-> MinFields, rx |-> 1, tx |-> BadField],
      [shape |-> "iface", iface |-> "lo", nfields |-> MinFields, rx |-> BadField, tx |-> 1] }

Lines == GoodLines \cup OddLines

Header == [shape |-> "nosplit", iface |-> "", nfields |-> 0, rx |-> 0, tx |-> 0]

\* the kernel lists an interface once
OncePerIface(b) ==
    \A i, j \in DOMAIN b :
        (i # j /\ b[i].shape = "iface" /\ b[j].shape = "iface") => b[i].iface # b[j].iface

Bodies == { b \in UNION { [1..n -> Lines] : n \in 0..MaxLines } : OncePerIface(b) }

\* a table that can be opened is its sequence of lines; Unavailable is a
\* table os.Open fails on
Unavailable == <<"unavailable">>

Tables == { <<Header, Header>> \o b : b \in Bodies } \cup {Unavailable}

\* iface == "lo" || !strings.HasPrefix(iface, "en")
Skipped(iface) == iface = "lo" \/ ~HasPrefixEn(iface)

\* a scan that passes over a short line or an unparsable field
RECURSIVE scanLenient(_, _, _)
scanLenient(lines, lineNum, c) ==
    IF lineNum > Len(lines) THEN [c |-> c, err |-> FALSE]
    ELSE LET l == lines[lineNum] IN
         IF lineNum <= HeaderLines THEN scanLenient(lines, lineNum + 1, c)
         ELSE IF l.shape # "iface" THEN scanLenient(lines, lineNum + 1, c)
         ELSE IF Skipped(l.iface) THEN scanLenient(lines, lineNum + 1, c)
         ELSE IF l.nfields < MinFields THEN scanLenient(lines, lineNum + 1, c)
         ELSE IF l.rx = BadField \/ l.tx = BadField
              THEN scanLenient(lines, lineNum + 1, c)
         ELSE scanLenient(lines, lineNum + 1, [rx |-> c.rx + l.rx, tx |-> c.tx + l.tx])

\* the scan loop of readTotals from line lineNum on, c the sums so far
RECURSIVE scan(_, _, _)
scan(lines, lineNum, c) ==
    IF lineNum > Len(lines) THEN [c |-> c, err |-> FALSE]
    ELSE LET l == lines[lineNum] IN
         IF lineNum <= HeaderLines THEN scan(lines, lineNum + 1, c)
         ELSE IF l.shape # "iface" THEN scan(lines, lineNum + 1, c)
         ELSE IF Skipped(l.iface) THEN scan(lines, lineNum + 1, c)
         ELSE IF l.nfields < MinFields THEN [c |-> c, err |-> TRUE]
         ELSE IF l.rx = BadField \/ l.tx = BadField THEN [c |-> c, err |-> TRUE]
         ELSE scan(lines, lineNum + 1, [rx |-> c.rx + l.rx, tx |-> c.tx + l.tx])

readTotals(table) ==
    IF table = Unavailable THEN [c |-> [rx |-> 0, tx |-> 0], err |-> TRUE]
    ELSE scan(table, 1, [rx |-> 0, tx |-> 0])

\* what one call of readTotals can return
ReadResults == { readTotals(t) : t \in Tables }

(* ---------------------------- pruneOld -------------------------------- *)
RECURSIVE pruneFrom(_, _, _)
pruneFrom(history, cut, i) ==
    IF i < Len(history) /\ history[i].t < cut
    THEN pruneFrom(history, cut, i + 1)
    ELSE i

\* pruneOld that drops nothing
pruneOldKeepsAll(history, now) == history

\* the prune of a second-oldest rule: the front entry goes while the entry
\* after it is still at or before the cut
RECURSIVE pruneFromSecond(_, _, _)
pruneFromSecond(history, cut, i) ==
    IF i < Len(history) /\ history[i + 1].t <= cut
    THEN pruneFromSecond(history, cut, i + 1)
    ELSE i

pruneOldSecondOldest(history, now) ==
    SubSeq(history, pruneFromSecond(history, now - avgWindow, 1), Len(history))

pruneOld(history, now) ==
    LET cut == now - avgWindow
        i == pruneFrom(history, cut, 1)
    IN SubSeq(history, i, Len(history))

(* ------------------------- the tick of main --------------------------- *)
\* delta without the reset guard
deltaUnguarded(c, p) == c - p

\* lines 172-178: the guarded counter delta of one direction
delta(c, p) == IF c >= p THEN c - p ELSE 0

\* avg5m without the else branch: the rate keeps its zero value
avg5mNoFallback(cum, oldCum, dt5, bps) ==
    IF dt5 > 0 THEN Quot(cum - oldCum, dt5) ELSE Quot(0, 1)

\* avg5m dividing by the nominal window, not by the retained span
avg5mFixedWindow(cum, oldCum, dt5, bps) ==
    IF dt5 > 0 THEN Quot(cum - oldCum, avgWindow) ELSE bps

\* lines 188-198: the windowed rate of one direction; old is history[0]
\* after the prune, cum the running total, bps the rate of this tick
avg5m(cum, oldCum, dt5, bps) ==
    IF dt5 > 0 THEN Quot(cum - oldCum, dt5) ELSE bps

\* Payload with the bit rates left in bytes
PayloadBitsUnscaled(now, sec, rxBps, txBps, rx5m, tx5m) ==
    [ Timestamp          |-> now,
      IntervalSeconds    |-> sec,
      RxBytesPerSec      |-> rxBps,
      TxBytesPerSec      |-> txBps,
      RxBitsPerSec       |-> rxBps,
      TxBitsPerSec       |-> txBps,
      TotalBytesPerSec   |-> Plus(rxBps, txBps),
      TotalBitsPerSec    |-> Plus(rxBps, txBps),
      RxBytesPerSec5m    |-> rx5m,
      TxBytesPerSec5m    |-> tx5m,
      TotalBytesPerSec5m |-> Plus(rx5m, tx5m),
      RxBitsPerSec5m     |-> rx5m,
      TxBitsPerSec5m     |-> tx5m,
      TotalBitsPerSec5m  |-> Plus(rx5m, tx5m) ]

\* lines 200-218
Payload(now, sec, rxBps, txBps, rx5m, tx5m) ==
    [ Timestamp          |-> now,
      IntervalSeconds    |-> sec,
      RxBytesPerSec      |-> rxBps,
      TxBytesPerSec      |-> txBps,
      RxBitsPerSec       |-> Times(rxBps, 8),
      TxBitsPerSec       |-> Times(txBps, 8),
      TotalBytesPerSec   |-> Plus(rxBps, txBps),
      TotalBitsPerSec    |-> Times(Plus(rxBps, txBps), 8),
      RxBytesPerSec5m    |-> rx5m,
      TxBytesPerSec5m    |-> tx5m,
      TotalBytesPerSec5m |-> Plus(rx5m, tx5m),
      RxBitsPerSec5m     |-> Times(rx5m, 8),
      TxBitsPerSec5m     |-> Times(tx5m, 8),
      TotalBitsPerSec5m  |-> Times(Plus(rx5m, tx5m), 8) ]

\* compute that leaves the new point out of the history
computeNoAppend(p, pAt, cRx, cTx, hist, now, cur) ==
    LET sec   == now - pAt
        drx   == delta(cur.rx, p.rx)
        dtx   == delta(cur.tx, p.tx)
        rxBps == Quot(drx, sec)
        txBps == Quot(dtx, sec)
        nRx   == cRx + drx
        nTx   == cTx + dtx
        h     == pruneOld(hist, now)
        old   == h[1]
        dt5   == now - old.t
        rx5m  == avg5m(nRx, old.cumRx, dt5, rxBps)
        tx5m  == avg5m(nTx, old.cumTx, dt5, txBps)
    IN [ cumRx |-> nRx, cumTx |-> nTx, history |-> h, drx |-> drx, dtx |-> dtx,
         pl |-> Payload(now, sec, rxBps, txBps, rx5m, tx5m) ]

\* lines 172-218 for a tick with sec > 0: the new totals, the new history
\* and the payload
compute(p, pAt, cRx, cTx, hist, now, cur) ==
    LET sec   == now - pAt
        drx   == delta(cur.rx, p.rx)
        dtx   == delta(cur.tx, p.tx)
        rxBps == Quot(drx, sec)
        txBps == Quot(dtx, sec)
        nRx   == cRx + drx
        nTx   == cTx + dtx
        h     == pruneOld(Append(hist, [t |-> now, cumRx |-> nRx, cumTx |-> nTx]), now)
        old   == h[1]
        dt5   == now - old.t
        rx5m  == avg5m(nRx, old.cumRx, dt5, rxBps)
        tx5m  == avg5m(nTx, old.cumTx, dt5, txBps)
    IN [ cumRx |-> nRx, cumTx |-> nTx, history |-> h, drx |-> drx, dtx |-> dtx,
         pl |-> Payload(now, sec, rxBps, txBps, rx5m, tx5m) ]

(* ------------------------------ state --------------------------------- *)
VARIABLES
    pc,          \* where main is: "init", "select", "deliver", "done", "exit"
    clock,       \* the monotonic clock, seconds
    tickPending, \* ticker.C holds a firing (the channel buffers one)
    cancelled,   \* ctx is done (SIGINT or SIGTERM arrived)
    prev,        \* counters of the last accepted sample
    prevAt,      \* time of the last accepted sample
    cumRx,       \* bytes received since the baseline
    cumTx,       \* bytes transmitted since the baseline
    history,     \* points of the window, oldest first
    err,         \* err of the last readTotals call
    sec,         \* elapsed seconds of the last tick that computed them
    tick,        \* locals of the tick being delivered, NoTick otherwise
    sent,        \* reports handed to the HTTP client so far
    runs,        \* two runs of the loop side by side (ScaleSpec), else NoRuns
    read,        \* one call of readTotals on a table (ReadSpec), else NoRead
    posted       \* the last POST as the log shows it (LoopSpec), else NoPost

vars == <<pc, clock, tickPending, cancelled, prev, prevAt, cumRx, cumTx,
          history, err, sec, tick, sent, runs, read, posted>>

book == <<prev, prevAt, cumRx, cumTx, history>>

NoTick == [now |-> -1]
NoSec == -1
NoCounters == [rx |-> 0, tx |-> 0]
NoRuns == [every |-> 0]
NoRead == [at |-> "none"]
NoPost == [outcome |-> "none", ts |-> -1]

Init ==
    /\ pc = "init"
    /\ clock = 0
    /\ tickPending = FALSE
    /\ cancelled = FALSE
    /\ prev = NoCounters
    /\ prevAt = 0
    /\ cumRx = 0
    /\ cumTx = 0
    /\ history = <<>>
    /\ err = FALSE
    /\ sec = NoSec
    /\ tick = NoTick
    /\ sent = 0
    /\ runs = NoRuns
    /\ read = NoRead
    /\ posted = NoPost

(* ----------------------------- actions -------------------------------- *)
\* time passes; the clock counts from the baseline capture
Pass ==
    /\ pc \in {"select", "deliver"}
    /\ clock < MaxClock * interval
    /\ clock' = clock + interval
    /\ UNCHANGED <<posted, read, runs, pc, tickPending, cancelled, prev, prevAt, cumRx, cumTx,
                   history, err, sec, tick, sent>>

\* the baseline error check left out
baselineFatalNever(r) == FALSE

\* lines 144-147: a failed baseline read is fatal
baselineFatal(r) == r.err

\* the history starts without the baseline point
baselineHistoryEmpty(t) == <<>>

\* line 152
baselineHistory(t) == <<[t |-> t, cumRx |-> 0, cumTx |-> 0]>>

\* lines 143-155: the baseline capture
InitRead ==
    /\ pc = "init"
    /\ \E r \in ReadResults :
        /\ err' = r.err
        /\ IF baselineFatal(r)
           THEN /\ pc' = "exit"
                /\ UNCHANGED <<posted, read, runs, prev, prevAt, history>>
           ELSE /\ pc' = "select"
                /\ prev' = r.c
                /\ prevAt' = clock
                /\ history' = baselineHistory(clock)
    /\ UNCHANGED <<posted, read, runs, clock, tickPending, cancelled, cumRx, cumTx, sec, tick, sent>>

\* the runtime's ticker puts a firing into ticker.C; a firing that finds the
\* buffer full is dropped
TimerFire ==
    /\ pc \in {"select", "deliver"}
    /\ tickPending' = TRUE
    /\ UNCHANGED <<posted, read, runs, pc, clock, cancelled, prev, prevAt, cumRx, cumTx, history,
                   err, sec, tick, sent>>

\* SIGINT or SIGTERM: signal.NotifyContext cancels ctx
Cancel ==
    /\ pc \in {"init", "select", "deliver"}
    /\ ~cancelled
    /\ cancelled' = TRUE
    /\ UNCHANGED <<posted, read, runs, pc, clock, tickPending, prev, prevAt, cumRx, cumTx, history,
                   err, sec, tick, sent>>

\* case <-ctx.Done() that is never taken
SelectDoneNever == FALSE /\ UNCHANGED vars

\* lines 158-160: case <-ctx.Done()
SelectDone ==
    /\ pc = "select"
    /\ cancelled
    /\ pc' = "done"
    /\ UNCHANGED <<posted, read, runs, clock, tickPending, cancelled, prev, prevAt, cumRx, cumTx,
                   history, err, sec, tick, sent>>

\* the firing handled wherever main is, as in a goroutine per firing
TickReadyAnywhere == pc \in {"select", "deliver"} /\ tickPending

\* line 161: case <-ticker.C is ready at the top of the loop
TickReady == pc = "select" /\ tickPending

\* a failed read taken as a sample of zero traffic
TickReadFailAsZero ==
    /\ TickReady
    /\ \E r \in ReadResults :
        /\ r.err
        /\ err' = TRUE
    /\ tickPending' = FALSE
    /\ sec' = NoSec
    /\ prevAt' = clock
    /\ history' = Append(history, [t |-> clock, cumRx |-> cumRx, cumTx |-> cumTx])
    /\ UNCHANGED <<posted, read, runs, pc, clock, cancelled, prev, cumRx, cumTx, tick, sent>>

\* a failed read whose partial counters replace the previous sample
TickReadFailResets ==
    /\ TickReady
    /\ \E r \in ReadResults :
        /\ r.err
        /\ err' = TRUE
        /\ prev' = r.c
    /\ tickPending' = FALSE
    /\ sec' = NoSec
    /\ UNCHANGED <<posted, read, runs, pc, clock, cancelled, prevAt, cumRx, cumTx, history,
                   tick, sent>>

\* lines 161-167: the read fails, the tick is skipped
TickReadFail ==
    /\ TickReady
    /\ \E r \in ReadResults :
        /\ r.err
        /\ err' = TRUE
    /\ tickPending' = FALSE
    /\ sec' = NoSec
    /\ UNCHANGED <<posted, read, runs, pc, clock, cancelled, prev, prevAt, cumRx, cumTx, history,
                   tick, sent>>

\* a skipped tick that still advances the previous sample
TickAnomalyAdvances ==
    /\ TickReady
    /\ \E r \in ReadResults :
        /\ ~r.err
        /\ err' = FALSE
        /\ prev' = r.c
    /\ clock - prevAt <= 0
    /\ tickPending' = FALSE
    /\ sec' = clock - prevAt
    /\ prevAt' = clock
    /\ UNCHANGED <<posted, read, runs, pc, clock, cancelled, cumRx, cumTx, history, tick, sent>>

\* lines 161-171: the read succeeds, sec <= 0, the tick is skipped
TickAnomaly ==
    /\ TickReady
    /\ \E r \in ReadResults :
        /\ ~r.err
        /\ err' = FALSE
    /\ clock - prevAt <= 0
    /\ tickPending' = FALSE
    /\ sec' = clock - prevAt
    /\ UNCHANGED <<posted, read, runs, pc, clock, cancelled, prev, prevAt, cumRx, cumTx, history,
                   tick, sent>>

\* lines 161-218: the read succeeds, sec > 0: totals and history are
\* updated and the payload is built
TickCompute ==
    /\ TickReady
    /\ sent < MaxTicks
    /\ clock - prevAt > 0
    /\ \E r \in ReadResults :
        /\ ~r.err
        /\ err' = FALSE
        /\ LET res == compute(prev, prevAt, cumRx, cumTx, history, clock, r.c) IN
            /\ cumRx' = res.cumRx
            /\ cumTx' = res.cumTx
            /\ history' = res.history
            /\ tick' = [now |-> clock, cur |-> r.c, drx |-> res.drx,
                        dtx |-> res.dtx, pl |-> res.pl]
    /\ sec' = clock - prevAt
    /\ tickPending' = FALSE
    /\ pc' = "deliver"
    /\ UNCHANGED <<posted, read, runs, clock, cancelled, prev, prevAt, sent>>

\* what client.Do and the status check can come to
Outcomes == {"ok", "status", "neterr", "timeout"}

\* Deliver that leaves the timestamp of the previous sample as it was
DeliverPrevAtStale ==
    /\ pc = "deliver"
    /\ \E o \in (IF cancelled THEN {"neterr"} ELSE Outcomes) : TRUE
    /\ sent' = sent + 1
    /\ prev' = tick.cur
    /\ tick' = NoTick
    /\ pc' = "select"
    /\ UNCHANGED <<posted, read, runs, clock, tickPending, cancelled, prevAt, cumRx, cumTx, history,
                   err, sec>>

\* Deliver that never lowers the previous counters
DeliverKeepsHighWater ==
    /\ pc = "deliver"
    /\ \E o \in (IF cancelled THEN {"neterr"} ELSE Outcomes) : TRUE
    /\ sent' = sent + 1
    /\ prev' = [rx |-> IF tick.cur.rx < prev.rx THEN prev.rx ELSE tick.cur.rx,
                tx |-> IF tick.cur.tx < prev.tx THEN prev.tx ELSE tick.cur.tx]
    /\ prevAt' = tick.now
    /\ tick' = NoTick
    /\ pc' = "select"
    /\ UNCHANGED <<posted, read, runs, clock, tickPending, cancelled, cumRx, cumTx, history, err, sec>>

\* lines 220-242: the report is posted; whatever the outcome, the sample
\* becomes the previous sample
Deliver ==
    /\ pc = "deliver"
    /\ \E o \in (IF cancelled THEN {"neterr"} ELSE Outcomes) : TRUE
    /\ sent' = sent + 1
    /\ prev' = tick.cur
    /\ prevAt' = tick.now
    /\ tick' = NoTick
    /\ pc' = "select"
    /\ UNCHANGED <<posted, read, runs, clock, tickPending, cancelled, cumRx, cumTx, history, err, sec>>

Next ==
    \/ Pass
    \/ InitRead
    \/ TimerFire
    \/ Cancel
    \/ SelectDone
    \/ TickReadFail
    \/ TickAnomaly
    \/ TickCompute
    \/ Deliver

Spec == Init /\ [][Next]_vars

(* ------------------- two runs of the loop, side by side --------------- *)
\* the loop's bookkeeping right after the baseline capture (lines 143-152)
baseline(c, t) ==
    [ prev |-> c, prevAt |-> t, cumRx |-> 0, cumTx |-> 0,
      history |-> baselineHistory(t), n |-> 0, pl |-> NoTick ]

\* lines 162-242 for a tick that is reported: the bookkeeping after it
reported(run, now, cur) ==
    LET res == compute(run.prev, run.prevAt, run.cumRx, run.cumTx, run.history, now, cur)
    IN [ prev |-> cur, prevAt |-> now, cumRx |-> res.cumRx, cumTx |-> res.cumTx,
         history |-> res.history, n |-> run.n + 1, pl |-> res.pl ]

\* the counters k bytes-per-interval units later
advanced(c, k, unit) == [rx |-> c.rx + k * unit.rx, tx |-> c.tx + k * unit.tx]

\* both runs start from one baseline; the fine run will tick every `every`
\* seconds with `unit` bytes more each time, the coarse run every 5 * every
\* seconds with 5 * unit bytes more
InitScale ==
    /\ Init!1 /\ Init!2 /\ Init!3 /\ Init!4 /\ Init!5 /\ Init!6 /\ Init!7
    /\ Init!8 /\ Init!9 /\ Init!10 /\ Init!11 /\ Init!12 /\ Init!13 /\ Init!15
    /\ Init!16
    /\ \E every \in 1..MaxEvery, ux \in 0..MaxUnit, ut \in 0..MaxUnit,
          bx \in 0..MaxCount, bt \in 0..MaxCount :
        runs = [ every |-> every, unit |-> [rx |-> ux, tx |-> ut],
                 fine |-> baseline([rx |-> bx, tx |-> bt], 0),
                 coarse |-> baseline([rx |-> bx, tx |-> bt], 0) ]

FineTick ==
    /\ runs.fine.n < 10
    /\ runs' = [runs EXCEPT !.fine =
                  reported(@, @.prevAt + runs.every, advanced(@.prev, 1, runs.unit))]
    /\ UNCHANGED <<posted, read, pc, clock, tickPending, cancelled, prev, prevAt, cumRx,
                   cumTx, history, err, sec, tick, sent>>

CoarseTick ==
    /\ runs.coarse.n < 2
    /\ runs' = [runs EXCEPT !.coarse =
                  reported(@, @.prevAt + 5 * runs.every, advanced(@.prev, 5, runs.unit))]
    /\ UNCHANGED <<posted, read, pc, clock, tickPending, cancelled, prev, prevAt, cumRx,
                   cumTx, history, err, sec, tick, sent>>

NextScale == FineTick \/ CoarseTick

ScaleSpec == InitScale /\ [][NextScale]_vars

(* ------------- the loop with its log of deliveries, to its end -------- *)
\* lines 232-240 with a failure keeping the previous sample for a retry
DeliverLoggedKeepsOnFailure ==
    /\ pc = "deliver"
    /\ \E o \in (IF cancelled THEN {"neterr"} ELSE Outcomes) :
        /\ posted' = [outcome |-> o, ts |-> tick.pl.Timestamp]
        /\ IF o = "ok"
           THEN prev' = tick.cur /\ prevAt' = tick.now
           ELSE UNCHANGED <<prev, prevAt>>
    /\ sent' = sent + 1
    /\ tick' = NoTick
    /\ pc' = "select"
    /\ UNCHANGED <<read, runs, clock, tickPending, cancelled, cumRx, cumTx, history,
                   err, sec>>

\* lines 220-242 with what lines 233-240 log: client.Do returns a response
\* with status < 300 ("ok"), one with status >= 300 ("status"), a transport
\* error ("neterr") or runs into the client's timeout ("timeout"); a
\* cancelled ctx makes it return an error
DeliverLogged ==
    /\ pc = "deliver"
    /\ \E o \in (IF cancelled THEN {"neterr"} ELSE Outcomes) :
        posted' = [outcome |-> o, ts |-> tick.pl.Timestamp]
    /\ sent' = sent + 1
    /\ prev' = tick.cur
    /\ prevAt' = tick.now
    /\ tick' = NoTick
    /\ pc' = "select"
    /\ UNCHANGED <<read, runs, clock, tickPending, cancelled, cumRx, cumTx, history,
                   err, sec>>

\* time passes, up to the horizon of LoopSpec
PassEarly == clock < MaxLoopClock * interval /\ Pass

NextLoop ==
    \/ PassEarly
    \/ InitRead
    \/ TimerFire
    \/ Cancel
    \/ SelectDone
    \/ TickReadFail
    \/ TickAnomaly
    \/ TickCompute
    \/ DeliverLogged

\* the baseline read returns; client.Do returns, within its 10 s timeout at
\* the latest; a select with ctx.Done() ready takes that case sooner or
\* later, the runtime choosing among ready cases at random
LoopSpec ==
    /\ Init
    /\ [][NextLoop]_vars
    /\ WF_vars(InitRead)
    /\ WF_vars(DeliverLogged)
    /\ SF_vars(SelectDone)

(* ------------------ readTotals on the tables of a host ---------------- *)
\* a host with two uplinks, two interfaces of another naming and loopback
HostIfaces == {"lo", "en0", "en1", "eth0", "eth1"}

HostGoodLines == [shape : {"iface"}, iface : HostIfaces, nfields : {MinFields},
                  rx : {1, 1000}, tx : {500}]

HostOddLines ==
    { [shape |-> "blank", iface |-> "", nfields |-> 0, rx |-> 0, tx |-> 0],
      [shape |-> "nosplit", iface |-> "", nfields |-> 0, rx |-> 0, tx |-> 0],
      [shape |-> "iface", iface |-> "en1", nfields |-> MinFields - 1, rx |-> 1, tx |-> 1],
      [shape |-> "iface", iface |-> "eth1", nfields |-> MinFields - 1, rx |-> 1, tx |-> 1],
      [shape |-> "iface", iface |-> "en0", nfields |-> MinFields, rx |-> BadField, tx |-> 1],
      [shape |-> "iface", iface |-> "en1", nfields |-> MinFields, rx |-> 1, tx |-> BadField],
      [shape |-> "iface", iface |-> "eth0", nfields |-> MinFields, rx |-> BadField, tx |-> 1],
      [shape |-> "iface", iface |-> "lo", nfields |-> MinFields - 1, rx |-> 1, tx |-> 1] }

HostLines == HostGoodLines \cup HostOddLines

HostTables ==
    { <<Header, Header>> \o b :
        b \in { h \in UNION { [1..n -> HostLines] : n \in 0..MaxHostLines } :
                  OncePerIface(h) } }
    \cup {Unavailable}

\* the state before the call: a table is in place
InitHost ==
    /\ Init!1 /\ Init!2 /\ Init!3 /\ Init!4 /\ Init!5 /\ Init!6 /\ Init!7
    /\ Init!8 /\ Init!9 /\ Init!10 /\ Init!11 /\ Init!12 /\ Init!13 /\ Init!14
    /\ Init!16
    /\ \E t \in HostTables : read = [at |-> "table", table |-> t]

\* line 163: cur, err := readTotals(statPath)
ReadTable ==
    /\ read.at = "table"
    /\ read' = [at |-> "read", table |-> read.table, out |-> readTotals(read.table)]
    /\ UNCHANGED <<posted, runs, pc, clock, tickPending, cancelled, prev, prevAt, cumRx,
                   cumTx, history, err, sec, tick, sent>>

\* lines 164-167: err != nil, the caller goes on without a sample
SampleRefused ==
    /\ read.at = "read" /\ read.out.err
    /\ read' = [read EXCEPT !.at = "skipped"]
    /\ UNCHANGED <<posted, runs, pc, clock, tickPending, cancelled, prev, prevAt, cumRx,
                   cumTx, history, err, sec, tick, sent>>

\* line 168 on: err == nil, cur is the sample of the tick
SampleTaken ==
    /\ read.at = "read" /\ ~read.out.err
    /\ read' = [at |-> "sampled", table |-> read.table, out |-> read.out,
                cur |-> read.out.c]
    /\ UNCHANGED <<posted, runs, pc, clock, tickPending, cancelled, prev, prevAt, cumRx,
                   cumTx, history, err, sec, tick, sent>>

NextHost == ReadTable \/ SampleRefused \/ SampleTaken

ReadSpec == InitHost /\ [][NextHost]_vars

(* ----------------------------- claims --------------------------------- *)
\* a timer firing is taken from ticker.C in this step
TickTaken == TickReady /\ ~tickPending'

\* the rate p equals n / d
EqRat(p, n, d) == p.den > 0 /\ p.num * d = n * p.den

\* the rate p equals k times the rate q
EqScaled(p, k, q) == p.den > 0 /\ q.den > 0 /\ p.num * q.den = k * q.num * p.den

\* the rate p equals the sum of the rates q and r
EqSum(p, q, r) ==
    /\ p.den > 0 /\ q.den > 0 /\ r.den > 0
    /\ p.num * q.den * r.den = (q.num * r.den + r.num * q.den) * p.den

NonNeg(p) == p.den > 0 /\ p.num >= 0

\* C1: a tick whose read succeeds and whose elapsed time since the previous
\* sample is <= 0 is skipped: main is back at the top of the loop, no report
\* is built or sent, and the previous sample, its timestamp, the cumulative
\* totals and the history are unchanged (so the next tick computes against
\* the same baseline).
C1_AnomalyTickSkipped ==
    [][ (TickTaken /\ ~err' /\ clock - prevAt <= 0)
          => (pc' = "select" /\ tick' = NoTick /\ sent' = sent /\ UNCHANGED book) ]_vars

\* a tick was skipped for zero elapsed time after a report had been sent
C1_Witness == pc = "select" /\ sec = 0 /\ ~err /\ sent >= 1

\* C2: a tick whose read fails is skipped: no report is built or sent, the
\* previous sample, its timestamp, the totals and the history are unchanged
\* (no zero-traffic point is recorded), and main is back at the top of the
\* loop.
C2_ReadFailureSkipped ==
    [][ (TickTaken /\ err')
          => (pc' = "select" /\ tick' = NoTick /\ sent' = sent /\ UNCHANGED book) ]_vars

\* a read failed in the loop, after a report, with time elapsed since the
\* previous sample
C2_Witness == pc = "select" /\ err /\ sent >= 1 /\ clock > prevAt

\* C3: the baseline capture sends no report; a failed initial read ends the
\* process, which never enters the loop and never sends a report; a report
\* is only ever sent by the delivery of a tick taken at the top of the loop.
C3_NoBaselineReport ==
    [][ /\ (pc = "init" => (sent' = 0 /\ tick' = NoTick /\ (err' => pc' = "exit")))
        /\ (pc = "exit" => (pc' = "exit" /\ sent' = 0))
        /\ (sent' # sent => (pc = "deliver" /\ sent' = sent + 1))
        /\ ((pc' = "deliver" /\ pc # "deliver") => TickTaken) ]_vars

\* the first report is being delivered: the baseline capture sent none
C3_Witness == pc = "deliver" /\ sent = 0 /\ ~err

\* C4: every rate of a report is >= 0; a direction whose counter went down
\* has delta 0, a direction whose counter did not go down has delta
\* current - previous, each direction on its own.
C4_RatesNonNegative ==
    pc = "deliver" =>
        LET pl == tick.pl IN
        /\ NonNeg(pl.RxBytesPerSec) /\ NonNeg(pl.TxBytesPerSec)
        /\ NonNeg(pl.RxBitsPerSec) /\ NonNeg(pl.TxBitsPerSec)
        /\ NonNeg(pl.TotalBytesPerSec) /\ NonNeg(pl.TotalBitsPerSec)
        /\ NonNeg(pl.RxBytesPerSec5m) /\ NonNeg(pl.TxBytesPerSec5m)
        /\ NonNeg(pl.RxBitsPerSec5m) /\ NonNeg(pl.TxBitsPerSec5m)
        /\ NonNeg(pl.TotalBytesPerSec5m) /\ NonNeg(pl.TotalBitsPerSec5m)
        /\ tick.drx = (IF tick.cur.rx < prev.rx THEN 0 ELSE tick.cur.rx - prev.rx)
        /\ tick.dtx = (IF tick.cur.tx < prev.tx THEN 0 ELSE tick.cur.tx - prev.tx)
        /\ EqRat(pl.RxBytesPerSec, tick.drx, tick.now - prevAt)
        /\ EqRat(pl.TxBytesPerSec, tick.dtx, tick.now - prevAt)

\* a report for a tick whose receive counter went down while the transmit
\* counter went up
C4_Witness == pc = "deliver" /\ tick.cur.rx < prev.rx /\ tick.cur.tx > prev.tx

\* C5: in a report for counters that did not go down, each bytes/sec is
\* (current - previous) / elapsed, each bits/sec is 8 times its bytes/sec,
\* the total is the sum of the two directions and interval_seconds is the
\* elapsed time.
C5_RateFormula ==
    (pc = "deliver" /\ tick.cur.rx >= prev.rx /\ tick.cur.tx >= prev.tx) =>
        LET pl == tick.pl
            elapsed == tick.now - prevAt
        IN
        /\ elapsed > 0
        /\ pl.IntervalSeconds = elapsed
        /\ EqRat(pl.RxBytesPerSec, tick.cur.rx - prev.rx, elapsed)
        /\ EqRat(pl.TxBytesPerSec, tick.cur.tx - prev.tx, elapsed)
        /\ EqScaled(pl.RxBitsPerSec, 8, pl.RxBytesPerSec)
        /\ EqScaled(pl.TxBitsPerSec, 8, pl.TxBytesPerSec)
        /\ EqSum(pl.TotalBytesPerSec, pl.RxBytesPerSec, pl.TxBytesPerSec)
        /\ EqScaled(pl.TotalBitsPerSec, 8, pl.TotalBytesPerSec)
        /\ EqScaled(pl.RxBitsPerSec5m, 8, pl.RxBytesPerSec5m)
        /\ EqScaled(pl.TxBitsPerSec5m, 8, pl.TxBytesPerSec5m)
        /\ EqScaled(pl.TotalBitsPerSec5m, 8, pl.TotalBytesPerSec5m)

\* a report over two sampling intervals with traffic in both directions
C5_Witness ==
    /\ pc = "deliver"
    /\ tick.cur.rx > prev.rx /\ tick.cur.tx > prev.tx
    /\ tick.pl.IntervalSeconds = 2 * interval

\* C6: from the baseline capture on, the history is never empty.
C6_HistoryNeverEmpty ==
    pc \in {"select", "deliver", "done"} => Len(history) >= 1

\* a tick after which the prune left a single point
C6_Witness == pc = "deliver" /\ sent >= 1 /\ Len(history) = 1

\* C7: after the prune of a successful tick, a retained point older than
\* now - window is the sole remaining point.
C7_NoStalePoints ==
    pc = "deliver" =>
        \A k \in 1..Len(history) :
            history[k].t < tick.now - avgWindow => Len(history) = 1

\* a tick whose prune dropped points and kept more than one
C7_Witness == pc = "deliver" /\ Len(history) >= 2 /\ Len(history) < sent + 2

\* C8: the windowed rate of a report is (cumulative total - oldest retained
\* total) / (now - oldest retained timestamp); when the oldest retained point
\* is the point of this tick, it is the instantaneous rate of the tick.
C8_WindowedRate ==
    pc = "deliver" =>
        LET pl == tick.pl
            old == history[1]
            dt5 == tick.now - old.t
        IN IF dt5 > 0
           THEN /\ EqRat(pl.RxBytesPerSec5m, cumRx - old.cumRx, dt5)
                /\ EqRat(pl.TxBytesPerSec5m, cumTx - old.cumTx, dt5)
           ELSE /\ Len(history) = 1
                /\ pl.RxBytesPerSec5m = pl.RxBytesPerSec
                /\ pl.TxBytesPerSec5m = pl.TxBytesPerSec

\* a report with traffic whose only retained point is its own
C8_Witness == pc = "deliver" /\ Len(history) = 1 /\ tick.drx > 0 /\ tick.dtx > 0

\* C9: two runs from one baseline with equal total elapsed time and equal
\* total traffic, one of 10 ticks of one unit each and one of 2 ticks of
\* five units each over intervals five times as long, report the same
\* windowed averages on their final tick.
C9_ScaleInvariant ==
    (runs.fine.n = 10 /\ runs.coarse.n = 2) =>
        LET f == runs.fine.pl
            c == runs.coarse.pl
        IN
        /\ runs.fine.prevAt = runs.coarse.prevAt
        /\ runs.fine.cumRx = runs.coarse.cumRx
        /\ runs.fine.cumTx = runs.coarse.cumTx
        /\ f.RxBytesPerSec5m = c.RxBytesPerSec5m
        /\ f.TxBytesPerSec5m = c.TxBytesPerSec5m
        /\ f.TotalBytesPerSec5m = c.TotalBytesPerSec5m
        /\ f.RxBitsPerSec5m = c.RxBitsPerSec5m
        /\ f.TxBitsPerSec5m = c.TxBitsPerSec5m
        /\ f.TotalBitsPerSec5m = c.TotalBitsPerSec5m

\* both runs are over, with traffic in both directions; the fine run has
\* pruned its history and the coarse run is left with its last point alone
C9_Witness ==
    /\ runs.fine.n = 10 /\ runs.coarse.n = 2
    /\ runs.unit.rx > 0 /\ runs.unit.tx > 0
    /\ Len(runs.fine.history) \in 2..10
    /\ Len(runs.coarse.history) = 1

\* C10: at most one tick is in flight.  A timer firing is taken from
\* ticker.C only at the top of the loop, when no tick is being delivered;
\* while a tick is being delivered the bookkeeping, the tick's locals and
\* the pending firing stay as they are until the step that completes the
\* tick, which makes its sample the previous sample and touches nothing else.
C10_OneTickInFlight ==
    [][ /\ (tickPending /\ ~tickPending') => (pc = "select" /\ tick = NoTick)
        /\ pc = "deliver" =>
             \/ /\ pc' = "deliver"
                /\ UNCHANGED <<book, tick, err, sec, sent>>
                /\ (tickPending => tickPending')
             \/ /\ pc' = "select"
                /\ prev' = tick.cur /\ prevAt' = tick.now
                /\ tick' = NoTick /\ sent' = sent + 1
                /\ UNCHANGED <<cumRx, cumTx, history, err, sec, tickPending>> ]_vars

\* a delivery is slow: time has passed since the tick began and the next
\* timer firing is waiting in ticker.C
C10_Witness == pc = "deliver" /\ tickPending /\ clock > tick.now

\* C13: as claimed, once ctx is cancelled no timer firing is taken any more.
\* The select of lines 158-161 gives ctx.Done() no priority over ticker.C:
\* with both ready either case may run, so this does not hold of main.
C13_NoTickAfterCancel ==
    [][ cancelled => ~(tickPending /\ ~tickPending') ]_vars

\* the largest and the smallest member of a non-empty set of integers
MaxOf(S) == CHOOSE k \in S : \A j \in S : j <= k
MinOf(S) == CHOOSE k \in S : \A j \in S : k <= j

\* the history of a tick taken in this step, before its prune
Appended == Append(history, [t |-> clock, cumRx |-> cumRx', cumTx |-> cumTx'])

\* a timer firing is taken in this step and its tick goes on to delivery
TickReported == TickTaken /\ pc' = "deliver"

\* C16 as claimed: after the prune the front entry is the newest entry at or
\* before now - window, when there is one.
C16_FrontCoversWindow ==
    [][ TickReported =>
          LET cut == clock - avgWindow
              old == { k \in 1..Len(Appended) : Appended[k].t <= cut }
          IN old # {} => history' = SubSeq(Appended, MaxOf(old), Len(Appended)) ]_vars

\* C16 as amended: the prune drops exactly the entries older than
\* now - window; the front entry is the oldest entry at or after now - window
\* (at the latest the point of this tick), so the retained span is at most
\* the window.
C16_FrontWithinWindow ==
    [][ TickReported =>
          LET cut == clock - avgWindow
              new == { k \in 1..Len(Appended) : Appended[k].t >= cut }
          IN /\ new # {}
             /\ history' = SubSeq(Appended, MinOf(new), Len(Appended))
             /\ clock - history'[1].t <= avgWindow ]_vars

\* a tick whose prune dropped a point and kept a front newer than the cut
C16_Witness ==
    /\ pc = "deliver" /\ Len(history) < sent + 2
    /\ history[1].t > tick.now - avgWindow /\ history[1].t < tick.now

\* C17 as claimed: when the delivery of a tick is about to be attempted, the
\* previous sample, its timestamp, the totals and the history are all
\* updated.
C17_AllUpdatedBeforeDelivery ==
    pc = "deliver" =>
        /\ prev = tick.cur /\ prevAt = tick.now
        /\ history[Len(history)] = [t |-> tick.now, cumRx |-> cumRx, cumTx |-> cumTx]

\* C17 as amended: when the delivery is about to be attempted the totals and
\* the history are updated (the newest point is the point of this tick and
\* carries the totals, which include the tick's deltas), while the timestamp
\* of the previous sample is still the one the tick computed against.
C17_TotalsUpdatedBeforeDelivery ==
    pc = "deliver" =>
        /\ history[Len(history)] = [t |-> tick.now, cumRx |-> cumRx, cumTx |-> cumTx]
        /\ Len(history) >= 2 =>
             /\ cumRx = history[Len(history) - 1].cumRx + tick.drx
             /\ cumTx = history[Len(history) - 1].cumTx + tick.dtx
        /\ prevAt < tick.now
        /\ tick.pl.IntervalSeconds = tick.now - prevAt

\* the second report is about to be delivered, for counters that moved
C17_Witness ==
    /\ pc = "deliver" /\ sent = 1 /\ Len(history) >= 2
    /\ tick.cur.rx # prev.rx /\ tick.cur.tx # prev.tx

\* C18: at the top of the loop the newest history entry is the point of the
\* last accepted sample (its time is prevAt, its totals are the running
\* totals), timestamps increase strictly and totals never decrease from
\* head to tail.
C18_HistoryTail ==
    pc \in {"select", "done"} =>
        /\ history[Len(history)] = [t |-> prevAt, cumRx |-> cumRx, cumTx |-> cumTx]
        /\ \A k \in 1..(Len(history) - 1) :
             /\ history[k].t < history[k + 1].t
             /\ history[k].cumRx <= history[k + 1].cumRx
             /\ history[k].cumTx <= history[k + 1].cumTx

\* the top of the loop after two reports with all three points retained
C18_Witness ==
    pc = "select" /\ sent = 2 /\ Len(history) = 3 /\ cumRx > 0 /\ cumTx > 0

\* the counters of the last accepted sample: the tick being delivered
\* becomes the previous sample whatever the delivery comes to
Accepted == IF pc = "deliver" THEN tick.cur ELSE prev

\* C19: traffic is conserved.  The totals are 0 at the baseline, and no step
\* of the loop changes (accepted counter - total) in a direction unless it
\* is a tick whose counter went down in that direction: skipped ticks
\* change neither, a reported tick adds current - previous to the total.  So
\* without a decrease the total is the last accepted counter minus the
\* baseline counter.  The rate of a reported tick is its delta over the time
\* since the last accepted sample, skipped ticks included.
C19_TrafficConserved ==
    [][ /\ (pc = "init" /\ pc' = "select") =>
             (cumRx' = 0 /\ cumTx' = 0 /\ history'[1].t = prevAt')
        /\ pc \in {"select", "deliver"} =>
             /\ ~(TickReported /\ tick'.cur.rx < prev.rx) =>
                  Accepted'.rx - cumRx' = Accepted.rx - cumRx
             /\ ~(TickReported /\ tick'.cur.tx < prev.tx) =>
                  Accepted'.tx - cumTx' = Accepted.tx - cumTx
        /\ TickReported =>
             LET since == clock - history[Len(history)].t IN
             /\ tick'.pl.IntervalSeconds = since
             /\ EqRat(tick'.pl.RxBytesPerSec, tick'.drx, since)
             /\ EqRat(tick'.pl.TxBytesPerSec, tick'.dtx, since) ]_vars

\* a tick was skipped for a failed read after traffic in both directions,
\* and the next firing is waiting
C19_Witness ==
    pc = "select" /\ err /\ tickPending /\ sent >= 1 /\ cumRx > 0 /\ cumTx > 0

\* C20: a tick that sees a counter go down adds nothing to that direction's
\* total, and its lower counter still becomes the previous sample, from
\* which the delta of the next tick is measured.
C20_ResetAdvancesBaseline ==
    [][ /\ TickReported =>
             /\ tick'.cur.rx < prev.rx => (tick'.drx = 0 /\ cumRx' = cumRx)
             /\ tick'.cur.tx < prev.tx => (tick'.dtx = 0 /\ cumTx' = cumTx)
             /\ tick'.cur.rx >= prev.rx =>
                  (tick'.drx = tick'.cur.rx - prev.rx /\ cumRx' = cumRx + tick'.drx)
             /\ tick'.cur.tx >= prev.tx =>
                  (tick'.dtx = tick'.cur.tx - prev.tx /\ cumTx' = cumTx + tick'.dtx)
        /\ (pc = "deliver" /\ pc' = "select") => prev' = tick.cur ]_vars

\* a tick after earlier traffic sees the receive counter go down
C20_Witness ==
    pc = "deliver" /\ sent = 1 /\ cumRx > 0 /\ tick.cur.rx < prev.rx /\ tick.drx = 0

\* a line that names an interface but has too few fields or a field that
\* does not parse
Malformed(l) ==
    l.shape = "iface" /\ (l.nfields < MinFields \/ l.rx = BadField \/ l.tx = BadField)

\* the sums of the well-formed lines of the interfaces in names, from line k
RECURSIVE Total(_, _, _)
Total(lines, k, names) ==
    IF k > Len(lines) THEN [rx |-> 0, tx |-> 0]
    ELSE LET l    == lines[k]
             rest == Total(lines, k + 1, names)
         IN IF l.shape = "iface" /\ l.iface \in names /\ ~Malformed(l)
            THEN [rx |-> l.rx + rest.rx, tx |-> l.tx + rest.tx]
            ELSE rest

\* the call of readTotals has returned
Returned == read.at \in {"read", "skipped", "sampled"}

\* C14: a read is all or nothing for the selected interfaces.  A selected
\* line with too few fields or an unparsable byte field makes the whole read
\* fail, a failed read never becomes a sample (whatever sum it had reached),
\* and a sample is the sum of every selected line, none passed over.
C14_ReadAllOrNothing ==
    Returned =>
        /\ (\E k \in (HeaderLines + 1)..Len(read.table) :
               /\ read.table # Unavailable
               /\ Malformed(read.table[k])
               /\ ~Skipped(read.table[k].iface)) => read.out.err
        /\ read.table = Unavailable => read.out.err
        /\ read.out.err => read.at # "sampled"
        /\ read.at = "sampled" =>
             /\ \A k \in (HeaderLines + 1)..Len(read.table) :
                  ~Skipped(read.table[k].iface) => ~Malformed(read.table[k])
             /\ read.cur = Total(read.table, HeaderLines + 1, {"en0", "en1"})

\* a read that had summed one uplink when it met a short line of the other:
\* the caller goes on without a sample
C14_Witness ==
    /\ read.at = "skipped" /\ read.table # Unavailable /\ Len(read.table) = 4
    /\ read.table[3].iface = "en0" /\ ~Malformed(read.table[3])
    /\ read.table[4].iface = "en1" /\ read.table[4].nfields < MinFields
    /\ read.out.c.rx = read.table[3].rx

TwoUplinks ==
    <<Header, Header,
      [shape |-> "iface", iface |-> "en0", nfields |-> MinFields, rx |-> 1000, tx |-> 500],
      [shape |-> "iface", iface |-> "en1", nfields |-> MinFields, rx |-> 1000, tx |-> 500]>>

TwoOthers ==
    <<Header, Header,
      [shape |-> "iface", iface |-> "eth0", nfields |-> MinFields, rx |-> 1000, tx |-> 500],
      [shape |-> "iface", iface |-> "eth1", nfields |-> MinFields, rx |-> 1000, tx |-> 500]>>

\* C15 as claimed: a successful read is the sum over every interface but
\* loopback, so two such interfaces with rx=1000, tx=500 each give 2000 and
\* 1000 whatever their names.
C15_SumsAllButLoopback ==
    read.at = "sampled" =>
        /\ read.cur = Total(read.table, HeaderLines + 1, HostIfaces \ {"lo"})
        /\ read.table \in {TwoUplinks, TwoOthers} => read.cur = [rx |-> 2000, tx |-> 1000]

\* C15 as amended: a successful read is the sum over the interfaces whose
\* name begins with "en"; two of them with rx=1000, tx=500 each give 2000
\* and 1000, two interfaces of another naming give 0 and 0.
C15_SumsUplinks ==
    read.at = "sampled" =>
        /\ read.cur = Total(read.table, HeaderLines + 1, {"en0", "en1"})
        /\ read.table = TwoUplinks => read.cur = [rx |-> 2000, tx |-> 1000]
        /\ read.table = TwoOthers => read.cur = [rx |-> 0, tx |-> 0]

\* the two uplinks of the scenario were read and summed
C15_Witness ==
    read.at = "sampled" /\ read.table = TwoUplinks /\ read.cur = [rx |-> 2000, tx |-> 1000]

\* a delivery attempt ends in this step
Delivered == pc = "deliver" /\ sent' # sent

\* C11: the outcome of a delivery has no effect on the bookkeeping.  Whether
\* the POST succeeds, fails on the network, times out or gets a status
\* >= 300, the step that ends it makes the tick's sample the previous
\* sample, leaves the totals and the history as the tick set them, drops
\* the report (nothing is kept for a later attempt: the next POST carries a
\* later timestamp) and returns to the select.
C11_OutcomeIrrelevant ==
    [][ Delivered =>
          /\ posted'.outcome \in Outcomes
          /\ \A o \in Outcomes : posted'.outcome = o =>
               /\ prev' = tick.cur /\ prevAt' = tick.now
               /\ UNCHANGED <<cumRx, cumTx, history>>
               /\ tick' = NoTick
               /\ pc' = "select"
               /\ sent' = sent + 1
          /\ posted'.ts = tick.pl.Timestamp
          /\ posted'.ts > posted.ts ]_vars

\* after a POST that timed out, the next tick computes from the sample of
\* the tick whose report was lost
C11_Witness ==
    /\ pc = "deliver" /\ posted.outcome = "timeout" /\ sent = 1
    /\ prevAt = posted.ts /\ tick.now > posted.ts
    /\ tick.pl.IntervalSeconds = tick.now - posted.ts

\* main has returned or exited
Terminated == pc \in {"done", "exit"}

\* C12: once cancellation is raised the loop terminates, whatever it was
\* doing, and a terminated loop stays terminated.
C12_CancelTerminates ==
    /\ cancelled ~> Terminated
    /\ [](Terminated => []Terminated)

\* the loop was cancelled after a report and has returned
C12_Witness == pc = "done" /\ cancelled /\ sent >= 1 /\ posted.outcome = "neterr"

====
